---------------------------- MODULE Spec2Model ----------------------------
(***************************************************************************)
(* SMBIOS structure-table parsing of osquery                              *)
(* (osquery/tables/system/posix/smbios_utils.cpp): the structure walker    *)
(* SMBIOSParser::tables, the generic summary decoder genSMBIOSTable, the   *)
(* Memory Device decoder genSMBIOSMemoryDevices and the helpers dmiToWord, *)
(* dmiToDWord, toHexStr, dmiString and dmiBitFieldToStr.                   *)
(*                                                                         *)
(* Addresses are byte offsets from table_data_ (0-based); the byte at      *)
(* address a of the buffer is table_data_[a + 1].  Memory past the end of  *)
(* the buffer is not part of the program's input: heap_len bytes of value  *)
(* heap_fill are mapped there, and a read past them faults.                *)
(***************************************************************************)
EXTENDS Integers, Sequences, FiniteSets, TLC

VARIABLES
  table_data_,     \* the bytes of the SMBIOS buffer (table_size_ is its length)
  data_null,       \* table_data_ == nullptr
  heap_fill,       \* value of the bytes mapped after the buffer
  heap_len,        \* number of bytes mapped after the buffer
  pc,              \* "call", "loop", "returned", "crashed"
  stop,            \* why tables() returned: "", "null", "short", "invalid", "padded", "fault"
  table,           \* the walker's cursor (local `table`)
  index,           \* the walker's local `index`
  calls,           \* history of predicate(index, hdr, address, size) invocations
  results,         \* QueryData filled by genSMBIOSTable
  memory_devices,  \* QueryData filled by genSMBIOSMemoryDevices
  accesses,        \* history of the formatted-area reads of genSMBIOSMemoryDevices
  dmi_calls        \* history of the dmiString calls of genSMBIOSMemoryDevices

vars == <<table_data_, data_null, heap_fill, heap_len, pc, stop, table, index,
          calls, results, memory_devices, accesses, dmi_calls>>

---------------------------------------------------------------------------
(* Bounds of the model *)

\* longest buffer of the walker specification (every buffer over WalkBytes)
MaxBuf == 9

\* number of bytes mapped after the buffer when any are
MaxSlack == 40

---------------------------------------------------------------------------
(* Program constants *)

SizeofSMBStructHeader == 4

kSMBIOSTypeMemoryDevice == 17

MinMemoryDeviceSize == 18

kSMBIOSTypeDescriptions ==
  (0 :> "BIOS Information") @@ (1 :> "System Information") @@
  (2 :> "Base Board or Module Information") @@
  (3 :> "System Enclosure or Chassis") @@ (4 :> "Processor Information") @@
  (5 :> "Memory Controller Information") @@
  (6 :> "Memory Module Information") @@ (7 :> "Cache Information") @@
  (8 :> "Port Connector Information") @@ (9 :> "System Slots") @@
  (10 :> "On Board Devices Information") @@ (11 :> "OEM Strings") @@
  (12 :> "System Configuration Options") @@
  (13 :> "BIOS Language Information") @@ (14 :> "Group Associations") @@
  (15 :> "System Event Log") @@ (16 :> "Physical Memory Array") @@
  (17 :> "Memory Device") @@ (18 :> "32-bit Memory Error Information") @@
  (19 :> "Memory Array Mapped Address") @@
  (20 :> "Memory Device Mapped Address") @@
  (21 :> "Built-in Pointing Device") @@ (22 :> "Portable Battery") @@
  (23 :> "System Reset") @@ (24 :> "Hardware Security") @@
  (25 :> "System Power Controls") @@ (26 :> "Voltage Probe") @@
  (27 :> "Cooling Device") @@ (28 :> "Temperature Probe") @@
  (29 :> "Electrical Current Probe") @@
  (30 :> "Out-of-Band Remote Access") @@
  (31 :> "Boot Integrity Services") @@ (32 :> "System Boot Information") @@
  (33 :> "64-bit Memory Error Information") @@ (34 :> "Management Device") @@
  (35 :> "Management Device Component") @@
  (36 :> "Management Device Threshold Data") @@ (37 :> "Memory Channel") @@
  (38 :> "IPMI Device Information") @@ (39 :> "System Power Supply") @@
  (40 :> "Additional Information") @@
  (41 :> "Onboard Devices Extended Info") @@ (126 :> "Inactive") @@
  (127 :> "End-of-Table") @@ (130 :> "Memory SPD Data") @@
  (131 :> "OEM Processor Type") @@ (132 :> "OEM Processor Bus Speed")

kSMBIOSMemoryFormFactorTable ==
  (1 :> "Other") @@ (2 :> "Unknown") @@ (3 :> "SIMM") @@ (4 :> "SIP") @@
  (5 :> "Chip") @@ (6 :> "DIP") @@ (7 :> "ZIP") @@
  (8 :> "Proprietary Card") @@ (9 :> "DIMM") @@ (10 :> "TSOP") @@
  (11 :> "Row of chips") @@ (12 :> "RIMM") @@ (13 :> "SODIMM") @@
  (14 :> "SRIMM") @@ (15 :> "FB-DIMM")

kSMBIOSMemoryDetailsTable ==
  (0 :> "Reserved") @@ (1 :> "Other") @@ (2 :> "Unknown") @@
  (3 :> "Fast-paged") @@ (4 :> "Static column") @@ (5 :> "Pseudo-static") @@
  (6 :> "RAMBUS") @@ (7 :> "Synchronous") @@ (8 :> "CMOS") @@ (9 :> "EDO") @@
  (10 :> "Window DRAM") @@ (11 :> "Cache DRAM") @@ (12 :> "Non-volatile") @@
  (13 :> "Registered (Buffered)") @@ (14 :> "Unbuffered (Unregistered)") @@
  (15 :> "LRDIMM")

kSMBIOSMemoryTypeTable ==
  (1 :> "Other") @@ (2 :> "Unknown") @@ (3 :> "DRAM") @@ (4 :> "EDRAM") @@
  (5 :> "VRAM") @@ (6 :> "SRAM") @@ (7 :> "RAM") @@ (8 :> "ROM") @@
  (9 :> "FLASH") @@ (10 :> "EEPROM") @@ (11 :> "FEPROM") @@ (12 :> "EPROM") @@
  (13 :> "CDRAM") @@ (14 :> "3DRAM") @@ (15 :> "SDRAM") @@ (16 :> "SGRAM") @@
  (17 :> "RDRAM") @@ (18 :> "DDR") @@ (19 :> "DDR2") @@
  (20 :> "DDR2 FB-DIMM") @@ (21 :> "RESERVED") @@ (22 :> "RESERVED") @@
  (23 :> "RESERVED") @@ (24 :> "DDR3") @@ (25 :> "FBD2") @@ (26 :> "DDR4") @@
  (27 :> "LPDDR") @@ (28 :> "LPDDR2") @@ (29 :> "LPDDR3") @@ (30 :> "LPDDR4")

---------------------------------------------------------------------------
(* Memory *)

table_size_ == Len(table_data_)

\* auto tables_end = table_data_ + table_size_;
tables_end == table_size_

\* first address that is not mapped: a read at or past it faults
mapped_end == table_size_ + heap_len

\* the byte the program reads at address a (a < mapped_end)
Mem(a) == IF a < table_size_ THEN table_data_[a + 1] ELSE heap_fill

\* const SMBStructHeader* at address a: type, length, little-endian handle
HdrType(a) == Mem(a)

HdrLength(a) == Mem(a + 1)

HdrHandle(a) == Mem(a + 3) * 256 + Mem(a + 2)

---------------------------------------------------------------------------
(* Field codec *)

\* inline uint16_t dmiToWord(uint8_t* address, uint8_t offset)
dmiToWord(address, offset) ==
  ((Mem(address + offset + 1) * 256) + Mem(address + offset)) % 65536

\* inline uint32_t dmiToDWord(uint8_t* address, uint8_t offset)
\* the value is hi * 65536 + lo (TLC's integers are 32-bit signed, so a
\* uint32_t is kept as its two 16-bit halves)
dmiToDWord(address, offset) ==
  [hi |-> ((Mem(address + offset + 3) * 256) + Mem(address + offset + 2))
          % 65536,
   lo |-> ((Mem(address + offset + 1) * 256) + Mem(address + offset))
          % 65536]

HexDigit(d) ==
  CASE d = 10 -> "a" [] d = 11 -> "b" [] d = 12 -> "c" [] d = 13 -> "d"
    [] d = 14 -> "e" [] d = 15 -> "f" [] OTHER -> ToString(d)

RECURSIVE HexDigits(_)
\* std::hex rendering of num, no padding
HexDigits(num) ==
  IF num < 16 THEN HexDigit(num)
  ELSE HexDigits(num \div 16) \o HexDigit(num % 16)

RECURSIVE PadLeft(_, _)
\* std::setw(width) << std::setfill('0')
PadLeft(str, width) ==
  IF Len(str) >= width THEN str ELSE PadLeft("0" \o str, width)

\* static inline std::string toHexStr(T num, int width = 4)
toHexStr(num) == "0x" \o PadLeft(HexDigits(num), 4)

\* static inline std::string dmiWordToHexStr(uint8_t* address, uint8_t offset)
dmiWordToHexStr(address, offset) == toHexStr(dmiToWord(address, offset))

\* INTEGER(x) / BIGINT(x): the decimal text of a number
INTEGER(x) == ToString(x)

RECURSIVE INTEGER32(_)
\* INTEGER(x) of a uint32_t kept as two halves: long division by ten
INTEGER32(d) ==
  LET carry == ((d.hi % 10) * 65536) + d.lo
      quot == [hi |-> d.hi \div 10, lo |-> carry \div 10]
      \* carry \div 10 < 65536 since carry <= 9 * 65536 + 65535
  IN IF d.hi = 0 THEN ToString(d.lo)
     ELSE INTEGER32(quot) \o ToString(carry % 10)

---------------------------------------------------------------------------
(* String table resolver *)

\* one char of a std::string as text; a byte that is not used as text by the
\* model's inputs is rendered as an escape
Chr(b) ==
  CASE b = 32 -> " " [] b = 9 -> "\t" [] b = 65 -> "A" [] b = 66 -> "B"
    [] b = 67 -> "C" [] OTHER -> "\\" \o ToString(b)

\* std::isspace in the classic locale (boost::algorithm::trim_right)
IsSpace(b) == b \in {32, 9, 10, 11, 12, 13}

RECURSIVE SkipString(_)
\* while (*bp != 0) bp++;  the address of the NUL found, or mapped_end when
\* the scan runs off the mapped memory (a fault)
SkipString(bp) ==
  IF bp >= mapped_end THEN mapped_end
  ELSE IF Mem(bp) # 0 THEN SkipString(bp + 1) ELSE bp

RECURSIVE LocateString(_, _)
\* while (index > 1) { while (*bp != 0) bp++; bp++; index--; }
LocateString(bp, idx) ==
  IF idx > 1
  THEN LET z == SkipString(bp)
       IN IF z >= mapped_end THEN mapped_end ELSE LocateString(z + 1, idx - 1)
  ELSE bp

RECURSIVE TrimRight(_, _)
\* boost::algorithm::trim_right on the bytes [bp, z)
TrimRight(bp, z) ==
  IF z > bp /\ IsSpace(Mem(z - 1)) THEN TrimRight(bp, z - 1) ELSE z

RECURSIVE Text(_, _)
\* the chars at [bp, z) as a std::string
Text(bp, z) == IF bp >= z THEN "" ELSE Chr(Mem(bp)) \o Text(bp + 1, z)

\* std::string dmiString(uint8_t* data, uint8_t* address, size_t offset)
\* fault: a read hit unmapped memory; hi: one past the highest address read
\* in the string area (data when none was read); str: the value returned
dmiString(data, address, offset) ==
  IF address + offset >= mapped_end
  THEN [fault |-> TRUE, k |-> 0, hi |-> data, str |-> ""]
  ELSE LET idx == Mem(address + offset)
       IN IF idx = 0
          THEN [fault |-> FALSE, k |-> 0, hi |-> data, str |-> ""]
          ELSE LET bp == LocateString(data, idx)
                   z == SkipString(bp)
               IN IF z >= mapped_end
                  THEN [fault |-> TRUE, k |-> idx, hi |-> mapped_end + 1,
                        str |-> ""]
                  ELSE [fault |-> FALSE, k |-> idx, hi |-> z + 1,
                        str |-> Text(bp, TrimRight(bp, z))]

---------------------------------------------------------------------------
(* Bit-field decoder *)

RECURSIVE BitSet(_, _)
\* 1 << i & bitField
BitSet(bitField, i) ==
  IF i = 0 THEN bitField % 2 = 1 ELSE BitSet(bitField \div 2, i - 1)

RECURSIVE BitLabels(_, _, _)
\* for (uint8_t i = 0; i < table.size(); i++) result += table.at(i) + ' '
BitLabels(bitField, labels, i) ==
  IF i >= Cardinality(DOMAIN labels) THEN ""
  ELSE (IF BitSet(bitField, i) THEN labels[i] \o " " ELSE "")
       \o BitLabels(bitField, labels, i + 1)

\* result.pop_back(): the labels of the set bits joined by single spaces
\* (the text is rebuilt without the space after its last label)
JoinedLabels(bitField, labels) ==
  LET Idx == {i \in 0..(Cardinality(DOMAIN labels) - 1) : BitSet(bitField, i)}
      last == CHOOSE i \in Idx : \A j \in Idx : j <= i
  IN BitLabels(bitField % (2 ^ last), labels, 0) \o labels[last]

\* std::string dmiBitFieldToStr(size_t bitField, const std::map<...>& table)
dmiBitFieldToStr(bitField, labels) ==
  IF BitLabels(bitField, labels, 0) = "" THEN ""
  ELSE JoinedLabels(bitField, labels)

---------------------------------------------------------------------------
(* Rows *)

\* Row r;
EmptyRow == [key \in {} |-> ""]

\* r[key] = value
Put(r, key, value) == (key :> value) @@ r

\* if (cond) r[key] = value
PutIf(r, cond, key, value) == IF cond THEN Put(r, key, value) ELSE r

\* hashFromBuffer(HASH_TYPE_MD5, address, size): the digest is an external
\* collaborator; it is kept as a text that names the bytes hashed
hashFromBuffer(address, size) == "md5:" \o Text(address, address + size)

\* void genSMBIOSTable(index, hdr, address, size, results): the row pushed
genSMBIOSTable(idx, address, size) ==
  [number |-> INTEGER(idx),
   type |-> INTEGER(HdrType(address)),
   description |-> IF HdrType(address) \in DOMAIN kSMBIOSTypeDescriptions
                   THEN kSMBIOSTypeDescriptions[HdrType(address)]
                   ELSE "Unknown",
   handle |-> INTEGER(HdrHandle(address)),
   header_size |-> INTEGER(HdrLength(address)),
   size |-> INTEGER(size),
   md5 |-> hashFromBuffer(address, size)]

---------------------------------------------------------------------------
(* Memory Device decoder *)

\* if (hdr->type != kSMBIOSTypeMemoryDevice || size < 0x12) return;
Accepts(address, size) ==
  HdrType(address) = kSMBIOSTypeMemoryDevice /\ ~(size < MinMemoryDeviceSize)

Rd(off, width, key) == [off |-> off, width |-> width, key |-> key]

\* the reads of the formatted area in program order; key names the field of
\* a dmiString call and is "" for a byte, word or dword read
MemoryDeviceReads(address) ==
  <<Rd(2, 2, ""), Rd(4, 2, ""), Rd(14, 1, ""), Rd(8, 2, ""), Rd(10, 2, ""),
    Rd(12, 2, "")>>
  \o (IF dmiToWord(address, 12) = 32767 THEN <<Rd(28, 4, "")>> ELSE <<>>)
  \o <<Rd(15, 1, ""), Rd(16, 1, "device_locator"), Rd(17, 1, "bank_locator"),
       Rd(18, 1, ""), Rd(19, 2, ""), Rd(21, 2, ""), Rd(32, 2, ""),
       Rd(23, 1, "manufacturer"), Rd(24, 1, "serial_number"),
       Rd(25, 1, "asset_tag"), Rd(26, 1, "part_number"),
       Rd(34, 2, ""), Rd(36, 2, ""), Rd(38, 2, "")>>

\* whether read rd hits unmapped memory
ReadFaults(data, address, rd) ==
  IF rd.key = "" THEN address + rd.off + rd.width > mapped_end
  ELSE dmiString(data, address, rd.off).fault

\* the reads performed: all of them, or those up to the first that faults
PerformedReads(data, address) ==
  LET reads == MemoryDeviceReads(address)
      bad == {i \in 1..Len(reads) : ReadFaults(data, address, reads[i])}
  IN IF bad = {} THEN reads
     ELSE SubSeq(reads, 1, CHOOSE i \in bad : \A j \in bad : i <= j)

\* the extended size read as a word
MemorySize_Word(address) ==
  IF dmiToWord(address, 12) # 32767
  THEN INTEGER(dmiToWord(address, 12))
  ELSE INTEGER(dmiToWord(address, 28))

\* r["size"] = (memBits != 0x7FFF) ? INTEGER(memBits)
\*                                 : INTEGER(dmiToDWord(address, 0x1C));
MemorySize(address) ==
  IF dmiToWord(address, 12) # 32767
  THEN INTEGER(dmiToWord(address, 12))
  ELSE INTEGER32(dmiToDWord(address, 28))

\* r[key] = dmiString(data, address, offset);
PutString(r, key, data, address, offset) ==
  Put(r, key, dmiString(data, address, offset).str)

\* the Row built by genSMBIOSMemoryDevices when no read faults
MemoryDeviceRow(address) ==
  LET data == address + HdrLength(address)
      r1 == Put(Put(EmptyRow, "handle", dmiWordToHexStr(address, 2)),
                "array_handle", dmiWordToHexStr(address, 4))
      r2 == PutIf(r1, Mem(address + 14) \in DOMAIN kSMBIOSMemoryFormFactorTable,
                  "form_factor",
                  kSMBIOSMemoryFormFactorTable[Mem(address + 14)])
      r3 == PutIf(r2, dmiToWord(address, 8) # 65535,
                  "total_width", INTEGER(dmiToWord(address, 8)))
      r4 == PutIf(r3, dmiToWord(address, 10) # 65535,
                  "data_width", INTEGER(dmiToWord(address, 10)))
      r5 == PutIf(r4, dmiToWord(address, 12) # 65535,
                  "size", MemorySize(address))
      r6 == PutIf(r5, Mem(address + 15) # 255,
                  "set", INTEGER(Mem(address + 15)))
      r7 == PutString(PutString(r6, "device_locator", data, address, 16),
                      "bank_locator", data, address, 17)
      r8 == PutIf(r7, Mem(address + 18) \in DOMAIN kSMBIOSMemoryTypeTable,
                  "memory_type", kSMBIOSMemoryTypeTable[Mem(address + 18)])
      r9 == Put(r8, "memory_type_details",
                dmiBitFieldToStr(dmiToWord(address, 19),
                                 kSMBIOSMemoryDetailsTable))
      r10 == PutIf(r9, dmiToWord(address, 21) # 0
                       /\ dmiToWord(address, 21) # 65535,
                   "max_speed", INTEGER(dmiToWord(address, 21)))
      r11 == PutIf(r10, dmiToWord(address, 32) # 0
                        /\ dmiToWord(address, 32) # 65535,
                   "configured_clock_speed", INTEGER(dmiToWord(address, 32)))
      r12 == PutString(PutString(PutString(PutString(r11,
                 "manufacturer", data, address, 23),
                 "serial_number", data, address, 24),
                 "asset_tag", data, address, 25),
                 "part_number", data, address, 26)
      r13 == PutIf(r12, dmiToWord(address, 34) # 0,
                   "min_voltage", INTEGER(dmiToWord(address, 34)))
      r14 == PutIf(r13, dmiToWord(address, 36) # 0,
                   "max_voltage", INTEGER(dmiToWord(address, 36)))
  IN PutIf(r14, dmiToWord(address, 38) # 0,
           "configured_voltage", INTEGER(dmiToWord(address, 38)))

\* void genSMBIOSMemoryDevices(index, hdr, address, size, results): the
\* outcome of one call that passed the type and size test
genSMBIOSMemoryDevices(address, size) ==
  LET data == address + HdrLength(address)
      done == PerformedReads(data, address)
      faulted == Len(done) > 0 /\ ReadFaults(data, address, done[Len(done)])
      row == IF faulted THEN 0 ELSE Len(memory_devices) + 1
  IN [fault |-> faulted,
      reads |-> {[address |-> address, length |-> HdrLength(address),
                  size |-> size, off |-> done[i].off,
                  width |-> done[i].width] : i \in 1..Len(done)},
      strings |-> {[address |-> address, length |-> HdrLength(address),
                    size |-> size, off |-> done[i].off, key |-> done[i].key,
                    k |-> dmiString(data, address, done[i].off).k,
                    hi |-> dmiString(data, address, done[i].off).hi,
                    row |-> row] :
                   i \in {j \in 1..Len(done) : done[j].key # ""}}]

---------------------------------------------------------------------------
(* Structure walker: SMBIOSParser::tables *)

\* while (table + sizeof(SMBStructHeader) <= tables_end)
LoopCond(t) == t + SizeofSMBStructHeader <= tables_end

\* the bound check against one byte past the end of the data
InvalidHeader_OffByOne(t) == t + HdrLength(t) > tables_end + 1

\* if (table + header->length > tables_end)
InvalidHeader(t) == t + HdrLength(t) > tables_end

\* if (header->length == 0 && header->handle == 0)
NullPadded(t) == HdrLength(t) = 0 /\ HdrHandle(t) = 0

RECURSIVE ScanTrailing(_)
\* for (; next_table + sizeof(SMBStructHeader) <= tables_end; next_table++)
\*   if (next_table[0] == 0 && next_table[1] == 0) { next_table += 2; break; }
ScanTrailing(next_table) ==
  IF next_table + SizeofSMBStructHeader <= tables_end
  THEN IF Mem(next_table) = 0 /\ Mem(next_table + 1) = 0
       THEN next_table + 2
       ELSE ScanTrailing(next_table + 1)
  ELSE next_table

\* the length taken from the start of the data, not of the structure
TableLength_FromStart(next_table, t) == next_table

\* auto table_length = next_table - table;
TableLength(next_table, t) == next_table - t

\* the index passed on without its increment
NextIndex_Same(i) == i

\* index++
NextIndex(i) == i + 1

\* if (table_data_ == nullptr) return;  auto table = table_data_; index = 0;
Tables_Enter ==
  /\ pc = "call"
  /\ IF data_null
     THEN pc' = "returned" /\ stop' = "null"
     ELSE pc' = "loop" /\ stop' = stop
  /\ table' = 0
  /\ index' = 0
  /\ UNCHANGED <<table_data_, data_null, heap_fill, heap_len, calls, results,
                 memory_devices, accesses, dmi_calls>>

\* the while condition fails: fewer than 4 bytes remain
Tables_LoopExit ==
  /\ pc = "loop"
  /\ ~LoopCond(table)
  /\ pc' = "returned"
  /\ stop' = "short"
  /\ UNCHANGED <<table_data_, data_null, heap_fill, heap_len, table, index,
                 calls, results, memory_devices, accesses, dmi_calls>>

\* Invalid header, length must be within SMBIOS data range: break
Tables_BreakInvalid ==
  /\ pc = "loop"
  /\ LoopCond(table)
  /\ InvalidHeader(table)
  /\ pc' = "returned"
  /\ stop' = "invalid"
  /\ UNCHANGED <<table_data_, data_null, heap_fill, heap_len, table, index,
                 calls, results, memory_devices, accesses, dmi_calls>>

\* Reached the end (null-padded content): break
Tables_BreakPadded ==
  /\ pc = "loop"
  /\ LoopCond(table)
  /\ ~InvalidHeader(table)
  /\ NullPadded(table)
  /\ pc' = "returned"
  /\ stop' = "padded"
  /\ UNCHANGED <<table_data_, data_null, heap_fill, heap_len, table, index,
                 calls, results, memory_devices, accesses, dmi_calls>>

\* the rest of the loop body: scan the trailing data, call the predicate
\* (genSMBIOSTable, then genSMBIOSMemoryDevices), move to the next structure
Tables_Emit ==
  /\ pc = "loop"
  /\ LoopCond(table)
  /\ ~InvalidHeader(table)
  /\ ~NullPadded(table)
  /\ LET next_table == ScanTrailing(table + HdrLength(table))
         table_length == TableLength(next_table, table)
         md == genSMBIOSMemoryDevices(table, table_length)
     IN /\ calls' = Append(calls,
                      [index |-> index, type |-> HdrType(table),
                       length |-> HdrLength(table),
                       handle |-> HdrHandle(table),
                       address |-> table, size |-> table_length])
        /\ results' = Append(results,
                             genSMBIOSTable(index, table, table_length))
        /\ index' = NextIndex(index)
        /\ IF Accepts(table, table_length)
           THEN /\ accesses' = accesses \cup md.reads
                /\ dmi_calls' = dmi_calls \cup md.strings
                /\ IF md.fault
                   THEN /\ pc' = "crashed"
                        /\ stop' = "fault"
                        /\ UNCHANGED <<memory_devices, table>>
                   ELSE /\ memory_devices' =
                             Append(memory_devices, MemoryDeviceRow(table))
                        /\ table' = next_table
                        /\ UNCHANGED <<pc, stop>>
           ELSE /\ table' = next_table
                /\ UNCHANGED <<pc, stop, memory_devices, accesses, dmi_calls>>
  /\ UNCHANGED <<table_data_, data_null, heap_fill, heap_len>>

Next ==
  \/ Tables_Enter
  \/ Tables_LoopExit
  \/ Tables_BreakInvalid
  \/ Tables_BreakPadded
  \/ Tables_Emit

---------------------------------------------------------------------------
(* Inputs *)

\* byte values of the walker's buffers: NUL, a header length below the
\* header size, a header length above it
WalkBytes == {0, 2, 5}

\* every buffer of at most MaxBuf bytes over WalkBytes
WalkBuffers == UNION {[1..n -> WalkBytes] : n \in 0..MaxBuf}

InitState ==
  /\ pc = "call"
  /\ stop = ""
  /\ table = 0
  /\ index = 0
  /\ calls = <<>>
  /\ results = <<>>
  /\ memory_devices = <<>>
  /\ accesses = {}
  /\ dmi_calls = {}

\* the parser holds any small buffer, or none
Init ==
  /\ table_data_ \in WalkBuffers
  /\ data_null \in IF table_data_ = <<>> THEN BOOLEAN ELSE {FALSE}
  /\ heap_fill = 0
  /\ heap_len = 0
  /\ InitState

Spec == Init /\ [][Next]_vars

\* the walker is a sequential loop: it runs while it can
FairSpec == Init /\ [][Next]_vars /\ WF_vars(Next)

---------------------------------------------------------------------------
(* Inputs of the Memory Device decoder *)

\* the byte at offset off of a Memory Device structure's formatted area
\* (SMBIOS type 17 layout): handle 0x1000, array handle 0x1001, widths 64,
\* size word w, form factor DIMM, set 1, string indices, type DDR4, detail
\* bits 7 and 13, speeds 2400, extended size dw, voltages 1200
DeviceByte(type, len, w, dw, idx16, idx23, off) ==
  CASE off = 0 -> type
    [] off = 1 -> len
    [] off = 2 -> 0
    [] off = 3 -> 16
    [] off = 4 -> 1
    [] off = 5 -> 16
    [] off = 8 -> 64
    [] off = 10 -> 64
    [] off = 12 -> w % 256
    [] off = 13 -> w \div 256
    [] off = 14 -> 9
    [] off = 15 -> 1
    [] off = 16 -> idx16
    [] off = 18 -> 26
    [] off = 19 -> 128
    [] off = 20 -> 32
    [] off = 21 -> 96
    [] off = 22 -> 9
    [] off = 23 -> idx23
    [] off \in 28..31 -> dw[off - 27]
    [] off = 32 -> 96
    [] off = 33 -> 9
    [] off \in {34, 36, 38} -> 176
    [] off \in {35, 37, 39} -> 4
    [] OTHER -> 0

\* the formatted area: len bytes
DeviceArea(type, len, w, dw, idx16, idx23) ==
  [i \in 1..len |-> DeviceByte(type, len, w, dw, idx16, idx23, i - 1)]

\* a Memory Device and another structure type
DeviceTypes == {17, 16}

\* header lengths: shorter than the decoder's size test, the SMBIOS 2.1,
\* 2.6 and 2.8 layouts, and one that holds the extended size only
DeviceLengths == {16, 18, 28, 32, 40}

\* size words: zero, a plain size, the extended-size and unknown sentinels
SizeWords == {0, 2048, 32767, 65535}

\* extended sizes, as the four bytes at 0x1C..0x1F
ExtendedSizes == {<<1, 2, 3, 4>>, <<0, 0, 0, 128>>}

\* string indices at 0x10 and at 0x17
LocatorIndices == {0, 1, 2, 3}

ManufacturerIndices == {0, 2}

\* trailing areas: none, "A", "A " and "B", " A  " (padded), and "A" with
\* no terminator at all
TrailingAreas ==
  {<<0, 0>>, <<65, 0, 0>>, <<65, 32, 0, 66, 0, 0>>, <<32, 65, 32, 32, 0, 0>>,
   <<65>>}

\* what follows the structure in the buffer: nothing, padding, an
\* End-of-Table structure, a structure longer than the buffer
Followers ==
  {<<>>, <<0, 0>>, <<0, 0, 0, 0>>, <<127, 4, 0, 0, 0, 0>>, <<127, 9, 0, 0>>}

\* one Memory Device structure and what follows it; the memory after the
\* buffer is unmapped, or MaxSlack bytes of NULs or of 'A's
MemInit ==
  /\ \E type \in DeviceTypes, len \in DeviceLengths, w \in SizeWords,
        dw \in ExtendedSizes, idx16 \in LocatorIndices,
        idx23 \in ManufacturerIndices, trailing \in TrailingAreas,
        follower \in Followers :
       table_data_ =
         DeviceArea(type, len, w, dw, idx16, idx23) \o trailing \o follower
  /\ data_null = FALSE
  /\ \E heap \in {<<0, 0>>, <<0, MaxSlack>>, <<65, MaxSlack>>} :
       heap_fill = heap[1] /\ heap_len = heap[2]
  /\ InitState

MemSpec == MemInit /\ [][Next]_vars

---------------------------------------------------------------------------
(* Properties of the structure walker *)

\* the byte at address a of the buffer
BufferByte(a) == table_data_[a + 1]

\* the structure at address a declares a formatted area that ends past the
\* end of the buffer
Overlong(a) == a + BufferByte(a + 1) > Len(table_data_)

\* the address of the first pair of NUL bytes at or after p that lies in
\* the buffer, or -1
FirstPair(p) ==
  LET Pairs == {q \in p..(Len(table_data_) - 2) :
                  BufferByte(q) = 0 /\ BufferByte(q + 1) = 0}
  IN IF Pairs = {} THEN -1 ELSE CHOOSE q \in Pairs : \A r \in Pairs : q <= r

\* C1: a structure whose cursor + header.length exceeds the buffer end is
\* never emitted, and once the cursor stands on such a structure nothing at
\* that or a later address is emitted: the walk stops there.  A buffer that
\* starts with such a structure yields no record at all.
C1_OverlongStopsWalk ==
  /\ \A i \in 1..Len(calls) :
       calls[i].address + calls[i].length <= Len(table_data_)
  /\ (pc # "call" /\ table + SizeofSMBStructHeader <= Len(table_data_)
        /\ Overlong(table))
       => /\ \A i \in 1..Len(calls) : calls[i].address < table
          /\ Len(results) = Len(calls)
          /\ (table = 0 => calls = <<>> /\ results = <<>>)
          /\ pc = "returned" => stop = "invalid"

\* C1 witness: the walk emitted a structure and then stopped on one whose
\* declared length runs past the buffer end
C1_Witness ==
  /\ pc = "returned"
  /\ stop = "invalid"
  /\ Len(calls) >= 1
  /\ Overlong(table)

\* C2: a structure with no pair of consecutive NUL bytes between the end of
\* its formatted area and the buffer end is not emitted
C2_UnterminatedNotEmitted ==
  \A i \in 1..Len(calls) :
    FirstPair(calls[i].address + calls[i].length) # -1

\* C5 (safety part): the scan indices are 0, 1, 2, ... in emission order,
\* the start addresses strictly ascend, and every emission moved the cursor
\* forward inside the buffer
C5_Ordered ==
  /\ \A i \in 1..Len(calls) : calls[i].index = i - 1
  /\ \A i \in 1..Len(calls) : \A j \in 1..Len(calls) :
       i < j => calls[i].address < calls[j].address
  /\ \A i \in 1..Len(calls) : calls[i].address < table
  /\ Len(calls) <= table
  /\ table <= Len(table_data_)
  /\ index = Len(calls)

\* C5: on every buffer the walk terminates after finitely many emissions,
\* with strictly ascending start addresses and scan indices 0, 1, 2, ...
C5_TerminatesInOrder == [](C5_Ordered) /\ <>(pc = "returned")

\* C5 witness: a finished walk that emitted three structures, among them
\* one with a header length below the header size and one of length 0
C5_Witness ==
  /\ pc = "returned"
  /\ Len(calls) >= 3
  /\ \E i \in 1..Len(calls) : calls[i].length \in 1..3
  /\ \E i \in 1..Len(calls) : calls[i].length = 0 /\ calls[i].handle # 0

\* C6: every emitted structure has header.length >= 4
C6_EmittedLengthAtLeastHeader ==
  \A i \in 1..Len(calls) : calls[i].length >= SizeofSMBStructHeader

\* C9: when the trailing area of an emitted structure is terminated by a
\* pair of NUL bytes inside the buffer, the emitted span length and the
\* summary record's size are the distance from the structure's start to 2
\* bytes past the pair
C9_SizeIncludesTerminator ==
  \A i \in 1..Len(calls) :
    LET q == FirstPair(calls[i].address + calls[i].length)
    IN q # -1 =>
         /\ calls[i].size = (q + 2) - calls[i].address
         /\ i <= Len(results) =>
              results[i].size = ToString((q + 2) - calls[i].address)

\* C10: the first emitted span starts at offset 0, each later one starts
\* where the previous one ends, every span is at least header.length long
\* and none ends past the buffer
C10_ContiguousSpans ==
  /\ Len(calls) >= 1 => calls[1].address = 0
  /\ \A i \in 2..Len(calls) :
       calls[i].address = calls[i - 1].address + calls[i - 1].size
  /\ \A i \in 1..Len(calls) :
       /\ calls[i].size >= calls[i].length
       /\ calls[i].address + calls[i].size <= Len(table_data_)

\* C10 witness: two emitted spans, the first with a trailing area
C10_Witness ==
  /\ Len(calls) >= 2
  /\ calls[1].size > calls[1].length
  /\ calls[2].address = calls[1].size
  /\ calls[2].address + calls[2].size = Len(table_data_)

---------------------------------------------------------------------------
(* Properties of the Memory Device decoder *)

\* the byte the decoder finds at address a: of the buffer, or of the memory
\* mapped after it
MemoryByte(a) == IF a < Len(table_data_) THEN BufferByte(a) ELSE heap_fill

\* the predicate calls that genSMBIOSMemoryDevices accepts, in order; the
\* i-th row of memory_devices is decoded from the i-th of them
AcceptedCalls ==
  SelectSeq(calls, LAMBDA c : c.type = 17 /\ c.size >= 18)

\* the offsets of the string-index bytes and the fields they fill
StringFields ==
  {<<16, "device_locator">>, <<17, "bank_locator">>, <<23, "manufacturer">>,
   <<24, "serial_number">>, <<25, "asset_tag">>, <<26, "part_number">>}

\* the end of the trailing area that starts at p: 2 bytes past its
\* terminating pair of NULs, or the buffer end when it has none
TrailingEnd(p) ==
  IF FirstPair(p) = -1 THEN Len(table_data_) ELSE FirstPair(p) + 2

RECURSIVE NumStrings(_, _)
\* the number of NUL-terminated strings in the trailing area [p, e): they
\* end at the first empty string
NumStrings(p, e) ==
  LET Nuls == {q \in p..(e - 1) : BufferByte(q) = 0}
      z == CHOOSE q \in Nuls : \A r \in Nuls : q <= r
  IN IF p >= e \/ Nuls = {} THEN 0
     ELSE IF z = p THEN 0
     ELSE 1 + NumStrings(z + 1, e)

\* C3: a dmiString call whose index is greater than the number of strings
\* of the structure's trailing area reads no byte past the structure and
\* leaves the field out of the record
C3_IndexOutOfRangeOmitted ==
  \A c \in dmi_calls :
    LET data == c.address + c.length
    IN (c.k >= 1 /\ c.k > NumStrings(data, TrailingEnd(data)))
         => /\ c.hi <= TrailingEnd(data)
            /\ c.row > 0 => c.key \notin DOMAIN memory_devices[c.row]

\* C4: every read of the formatted area by the decoder lies inside the
\* structure's declared length and inside its span
C4_ReadsInsideStructure ==
  \A a \in accesses :
    /\ a.off + a.width <= a.length
    /\ a.off + a.width <= a.size

\* the decimal text of the little-endian dword at address a
DWordText(a) ==
  IF MemoryByte(a + 3) < 128
  THEN ToString(MemoryByte(a) + (256 * MemoryByte(a + 1))
                + (65536 * MemoryByte(a + 2))
                + (16777216 * MemoryByte(a + 3)))
  ELSE IF <<MemoryByte(a), MemoryByte(a + 1), MemoryByte(a + 2),
            MemoryByte(a + 3)>> = <<0, 0, 0, 128>>
       THEN "2147483648"
       ELSE "unknown"

\* C7: the record's size is absent when the word at 0x0C is 0xFFFF, is the
\* little-endian dword at 0x1C when the word is 0x7FFF, and is the word
\* itself otherwise (0 included)
C7_SizeField ==
  \A i \in 1..Len(memory_devices) :
    LET a == AcceptedCalls[i].address
        w == BufferByte(a + 12) + (256 * BufferByte(a + 13))
        r == memory_devices[i]
    IN /\ w = 65535 => "size" \notin DOMAIN r
       /\ w = 32767 => "size" \in DOMAIN r /\ r["size"] = DWordText(a + 28)
       /\ w \notin {65535, 32767} =>
            "size" \in DOMAIN r /\ r["size"] = ToString(w)

\* C7 witness: a decoded record of a 40-byte structure whose size word is
\* 0x7FFF and whose extended size is 0x04030201
C7_Witness ==
  /\ Len(memory_devices) = 1
  /\ LET a == AcceptedCalls[1].address
         w == BufferByte(a + 12) + (256 * BufferByte(a + 13))
     IN /\ w = 32767
        /\ AcceptedCalls[1].length = 40
        /\ memory_devices[1]["size"] = "67305985"

\* C8: a string field whose index byte is 0 is absent from the record
C8_IndexZeroAbsent ==
  \A i \in 1..Len(memory_devices) : \A f \in StringFields :
    MemoryByte(AcceptedCalls[i].address + f[1]) = 0
      => f[2] \notin DOMAIN memory_devices[i]

=============================================================================
